---- MODULE Spec2Model ----
(***************************************************************************)
(* A model of minexcel: check_int_serial (utils.py), parse_template,      *)
(* parse_block and read_block_excel (block.py).                           *)
(*                                                                         *)
(* Python values are modelled as follows.                                  *)
(*   - a str is the sequence of its characters (<<"a","[","x","]">>);      *)
(*   - a cell is None, a number or a str, tagged: None, Num(n), Str(s);    *)
(*   - a list is a TLA+ sequence (Python index i is TLA+ index i+1);       *)
(*   - a dict is the sequence of its items in insertion order;             *)
(*   - a DataFrame is [index, columns, values] with values[r][c], r and c  *)
(*     0-based positions, index and columns the row and column labels.     *)
(*   - a call that raises yields [raised |-> <exception type>, ...].       *)
(***************************************************************************)
EXTENDS Integers, Sequences, FiniteSets, TLC

VARIABLES pc, ser, sort, serial, tmpl_df, tmpl, call, result

vars == <<pc, ser, sort, serial, tmpl_df, tmpl, call, result>>

Unset == [raised |-> "unset"]

(***************************************************************************)
(* Python builtins                                                         *)
(***************************************************************************)
\* The elements of a list, as a set.
set(s) == {s[i] : i \in 1..Len(s)}

\* A list comprehension is evaluated when it is written: the function is turned
\* into the tuple of its values.
to_list(f) == f \o <<>>

min(s) == CHOOSE x \in set(s) : \A y \in set(s) : x <= y

max(s) == CHOOSE x \in set(s) : \A y \in set(s) : x >= y

\* list(range(lo, hi)): empty when hi <= lo.
range(lo, hi) == IF hi <= lo THEN <<>> ELSE [i \in 1..(hi - lo) |-> lo + i - 1]

RECURSIVE insort(_, _)
insort(s, x) ==
  IF s = <<>> THEN <<x>>
  ELSE IF x < s[1] THEN <<x>> \o s
  ELSE <<s[1]>> \o insort(Tail(s), x)

\* sorted(list(ser)): ascending, duplicates kept.
RECURSIVE sorted(_)
sorted(s) == IF s = <<>> THEN <<>> ELSE insort(sorted(SubSeq(s, 1, Len(s) - 1)), s[Len(s)])

\* round(n / d) for integers n >= 0, d > 0: Python 3 rounds a half to the even
\* neighbour.
round_div(n, d) ==
  LET q == n \div d
      r == n % d
  IN  IF 2 * r < d THEN q
      ELSE IF 2 * r > d THEN q + 1
      ELSE IF q % 2 = 0 THEN q ELSE q + 1

(***************************************************************************)
(* utils.check_int_serial                                                  *)
(***************************************************************************)
\* A bug check_int_serial could have: the sort flag is ignored and the input is
\* always sorted.
check_int_serial_always_sorts(s, srt) ==
  IF s = <<>> THEN [raised |-> "ValueError", value |-> FALSE]
  ELSE [raised |-> "none", value |-> sorted(s) = range(min(s), max(s) + 1)]

check_int_serial(s, srt) ==
  IF s = <<>> THEN [raised |-> "ValueError", value |-> FALSE]
  ELSE LET l == IF srt THEN sorted(s) ELSE s
           range_list == range(min(l), max(l) + 1)
       IN  [raised |-> "none", value |-> l = range_list]

(***************************************************************************)
(* Cells and strings                                                       *)
(***************************************************************************)
None == [t |-> "None", v |-> <<>>]
Num(n) == [t |-> "num", v |-> <<n>>]
Str(s) == [t |-> "str", v |-> s]

isna(cell) == cell.t = "None"
isinstance_str(cell) == cell.t = "str"

\* \w of the re module, over the characters the model's strings are made of.
WordChars ==
  {"a", "b", "c", "d", "e", "f", "g", "h", "i", "j", "k", "l", "m", "n", "o", "p",
   "q", "r", "s", "t", "u", "v", "w", "x", "y", "z", "_", "0", "1", "2", "3", "4",
   "5", "6", "7", "8", "9"}

lit_tablemeta == <<"[", "t", "a", "b", "l", "e", "m", "e", "t", "a", "]">>
lit_rowmeta == <<"[", "r", "o", "w", "m", "e", "t", "a", "]">>
lit_colmeta == <<"[", "c", "o", "l", "m", "e", "t", "a", "]">>

\* The length of the longest prefix of s, from position n on, made of \w.
RECURSIVE word_prefix(_, _)
word_prefix(s, n) ==
  IF n < Len(s) /\ s[n + 1] \in WordChars THEN word_prefix(s, n + 1) ELSE n

\* re.match(r"(\w+)\[<marker>\]", s): anchored at the start, \w+ greedy; "[" is
\* no \w, so the only candidate is the whole word prefix. Text after "]" is
\* ignored.
re_match(s, lit) ==
  LET n == word_prefix(s, 0)
  IN  IF n >= 1 /\ Len(s) >= n + Len(lit) /\ SubSeq(s, n + 1, n + Len(lit)) = lit
      THEN [matched |-> TRUE, group1 |-> SubSeq(s, 1, n)]
      ELSE [matched |-> FALSE, group1 |-> <<>>]

(***************************************************************************)
(* dict, in insertion order                                                *)
(***************************************************************************)
keys(d) == [i \in 1..Len(d) |-> d[i].k]

has_key(d, k) == \E i \in 1..Len(d) : d[i].k = k

dict_get(d, k) == d[CHOOSE i \in 1..Len(d) : d[i].k = k].v

\* d[k] = v: an existing key keeps its place.
dict_set(d, k, v) ==
  IF has_key(d, k)
  THEN to_list([i \in 1..Len(d) |-> IF d[i].k = k THEN [k |-> k, v |-> v] ELSE d[i]])
  ELSE Append(d, [k |-> k, v |-> v])

\* d.setdefault(k, []).append(x)
setdefault_append(d, k, x) ==
  IF has_key(d, k) THEN dict_set(d, k, Append(dict_get(d, k), x))
  ELSE Append(d, [k |-> k, v |-> <<x>>])

(***************************************************************************)
(* DataFrame                                                               *)
(***************************************************************************)
\* pd.DataFrame(values): labels are the positions.
DataFrame(nrow, ncol, values) ==
  [index |-> range(0, nrow), columns |-> range(0, ncol), values |-> values]

shape(df) == <<Len(df.index), Len(df.columns)>>

\* df.isna().sum(axis=0) != 0, by column position; axis=1, by row position.
any_na_col(df, c) == \E r \in 0..(Len(df.index) - 1) : isna(df.values[r][c])
any_na_row(df, r) == \E c \in 0..(Len(df.columns) - 1) : isna(df.values[r][c])

(***************************************************************************)
(* block.parse_template                                                    *)
(***************************************************************************)
\* data_cols[data_cols].index.to_list(): the columns holding a blank, ascending.
data_cols_list(df) == SelectSeq(df.columns, LAMBDA c : any_na_col(df, c))

data_rows_list(df) == SelectSeq(df.index, LAMBDA r : any_na_row(df, r))

\* tmpl_df.loc[:, ~data_cols].columns and tmpl_df.loc[~data_rows, :].index
meta_cols_list(df) == SelectSeq(df.columns, LAMBDA c : ~any_na_col(df, c))

meta_rows_list(df) == SelectSeq(df.index, LAMBDA r : ~any_na_row(df, r))

is_marker(cell, lit) == isinstance_str(cell) /\ re_match(cell.v, lit).matched

\* The table-level scan, cell k onwards in row-major order: every match is
\* appended to its key's list of positions.
RECURSIVE scan_tablemeta(_, _, _)
scan_tablemeta(df, k, acc) ==
  LET ncol == Len(df.columns)
      irow == k \div ncol
      icol == k % ncol
      cell == df.values[irow][icol]
  IN  IF k >= Len(df.index) * ncol THEN acc
      ELSE scan_tablemeta(df, k + 1,
             IF is_marker(cell, lit_tablemeta)
             THEN setdefault_append(acc, re_match(cell.v, lit_tablemeta).group1,
                                    <<irow, icol>>)
             ELSE acc)

\* A tuple (row, col), and a list of such tuples.
tuple(p) == [py |-> "tuple", v |-> p]
list(l) == [py |-> "list", v |-> l]

\* A key with more than one position keeps the first one, as a tuple; a key
\* with exactly one position is left as it was collected: a list of one tuple.
first_positions(tablemeta) ==
  [i \in 1..Len(tablemeta) |->
     [k |-> tablemeta[i].k,
      v |-> IF Len(tablemeta[i].v) > 1 THEN tuple(tablemeta[i].v[1])
            ELSE list(tablemeta[i].v)]]

\* One metadata column: the rows of its rowmeta markers and their keys.
rowmeta_range_list(df, icol) ==
  SelectSeq(df.index, LAMBDA irow : is_marker(df.values[irow][icol], lit_rowmeta))

rowmeta_key_list(df, icol) ==
  LET rows == rowmeta_range_list(df, icol)
  IN  [i \in 1..Len(rows) |-> re_match(df.values[rows[i]][icol].v, lit_rowmeta).group1]

\* A bug the column check could have: the markers' rows are not checked
\* against the data zone.
rowmeta_column_no_zone_check(df, icol, rows_list) ==
  LET key_list == rowmeta_key_list(df, icol)
      range_list == rowmeta_range_list(df, icol)
  IN  IF key_list = <<>> THEN [raised |-> "none", skip |-> TRUE]
      ELSE IF Cardinality(set(key_list)) # 1
      THEN [raised |-> "AssertionError", msg |-> "Multiple rowmeta keys found in column"]
      ELSE IF ~check_int_serial(range_list, FALSE).value
      THEN [raised |-> "AssertionError", msg |-> "Rowmeta ranges must be contiguous"]
      ELSE [raised |-> "none", skip |-> FALSE, meta_key |-> key_list[1],
            pos |-> [col |-> icol, start |-> min(range_list), end |-> max(range_list)]]

\* The checks on one metadata column and the entry it yields.
rowmeta_column(df, icol, rows_list) ==
  LET key_list == rowmeta_key_list(df, icol)
      range_list == rowmeta_range_list(df, icol)
  IN  IF key_list = <<>> THEN [raised |-> "none", skip |-> TRUE]
      ELSE IF Cardinality(set(key_list)) # 1
      THEN [raised |-> "AssertionError", msg |-> "Multiple rowmeta keys found in column"]
      ELSE IF ~check_int_serial(range_list, FALSE).value
      THEN [raised |-> "AssertionError", msg |-> "Rowmeta ranges must be contiguous"]
      ELSE IF ~(set(range_list) \subseteq set(rows_list))
      THEN [raised |-> "AssertionError", msg |-> "Rowmeta rows out of data zone"]
      ELSE [raised |-> "none", skip |-> FALSE, meta_key |-> key_list[1],
            pos |-> [col |-> icol, start |-> min(range_list), end |-> max(range_list)]]

\* The loop over the metadata columns, from the i-th on; it stops at the first
\* assertion that fails.
RECURSIVE scan_rowmeta(_, _, _, _, _)
scan_rowmeta(df, cols, rows_list, i, acc) ==
  IF i > Len(cols) THEN [raised |-> "none", rowmeta |-> acc]
  ELSE LET c == rowmeta_column(df, cols[i], rows_list)
       IN  IF c.raised # "none" THEN c
           ELSE scan_rowmeta(df, cols, rows_list, i + 1,
                  IF c.skip THEN acc ELSE dict_set(acc, c.meta_key, c.pos))

\* One metadata row: the columns of its colmeta markers and their keys.
colmeta_range_list(df, irow) ==
  SelectSeq(df.columns, LAMBDA icol : is_marker(df.values[irow][icol], lit_colmeta))

colmeta_key_list(df, irow) ==
  LET cols == colmeta_range_list(df, irow)
  IN  [i \in 1..Len(cols) |-> re_match(df.values[irow][cols[i]].v, lit_colmeta).group1]

colmeta_row(df, irow, cols_list) ==
  LET key_list == colmeta_key_list(df, irow)
      range_list == colmeta_range_list(df, irow)
  IN  IF key_list = <<>> THEN [raised |-> "none", skip |-> TRUE]
      ELSE IF Cardinality(set(key_list)) # 1
      THEN [raised |-> "AssertionError", msg |-> "Multiple colmeta keys found in row"]
      ELSE IF ~check_int_serial(range_list, FALSE).value
      THEN [raised |-> "AssertionError", msg |-> "Colmeta ranges must be contiguous"]
      ELSE IF ~(set(range_list) \subseteq set(cols_list))
      THEN [raised |-> "AssertionError", msg |-> "Colmeta columns out of data zone"]
      ELSE [raised |-> "none", skip |-> FALSE, meta_key |-> key_list[1],
            pos |-> [row |-> irow, start |-> min(range_list), end |-> max(range_list)]]

RECURSIVE scan_colmeta(_, _, _, _, _)
scan_colmeta(df, rows, cols_list, i, acc) ==
  IF i > Len(rows) THEN [raised |-> "none", colmeta |-> acc]
  ELSE LET r == colmeta_row(df, rows[i], cols_list)
       IN  IF r.raised # "none" THEN r
           ELSE scan_colmeta(df, rows, cols_list, i + 1,
                  IF r.skip THEN acc ELSE dict_set(acc, r.meta_key, r.pos))

parse_template(df) ==
  LET cols_list == data_cols_list(df)
      rows_list == data_rows_list(df)
      serial_cols == check_int_serial(cols_list, FALSE)
      serial_rows == check_int_serial(rows_list, FALSE)
      rowmeta == scan_rowmeta(df, meta_cols_list(df), rows_list, 1, <<>>)
      colmeta == scan_colmeta(df, meta_rows_list(df), cols_list, 1, <<>>)
  IN  IF serial_cols.raised # "none"
      THEN [raised |-> serial_cols.raised, msg |-> "min() arg is an empty sequence"]
      ELSE IF ~serial_cols.value
      THEN [raised |-> "AssertionError", msg |-> "Data columns must be contiguous"]
      ELSE IF serial_rows.raised # "none"
      THEN [raised |-> serial_rows.raised, msg |-> "min() arg is an empty sequence"]
      ELSE IF ~serial_rows.value
      THEN [raised |-> "AssertionError", msg |-> "Data rows must be contiguous"]
      ELSE IF rowmeta.raised # "none" THEN rowmeta
      ELSE IF colmeta.raised # "none" THEN colmeta
      ELSE [raised |-> "none",
            block_nrow |-> shape(df)[1],
            block_ncol |-> shape(df)[2],
            data_nrow |-> Cardinality({r \in set(df.index) : any_na_row(df, r)}),
            data_ncol |-> Cardinality({c \in set(df.columns) : any_na_col(df, c)}),
            data_rows_list |-> rows_list,
            data_cols_list |-> cols_list,
            tablemeta |-> first_positions(scan_tablemeta(df, 0, <<>>)),
            rowmeta |-> rowmeta.rowmeta,
            colmeta |-> colmeta.colmeta]

(***************************************************************************)
(* block.parse_block                                                       *)
(***************************************************************************)
name_row_index == <<"r", "o", "w", "_", "i", "n", "d", "e", "x">>
name_col_index == <<"c", "o", "l", "_", "i", "n", "d", "e", "x">>
name_value == <<"v", "a", "l", "u", "e">>

\* An integer held in a column of the result.
is_int(x) == x.t = "num"
int(x) == x.v[1]

\* A bug the reshaping could have: the data zone is unpivoted row by row
\* (data.stack()) instead of column by column.
melt_row_by_row(rows_list, cols_list) ==
  LET K == Len(cols_list)
  IN  to_list([k \in 1..(Len(rows_list) * K) |->
         <<rows_list[((k - 1) \div K) + 1], cols_list[((k - 1) % K) + 1]>>])

\* The (row, col) positions of data.melt(...), in the order of its rows: melt
\* stacks the value columns one after the other, so the columns of the data
\* zone are the outer loop and its rows the inner one.
melt(rows_list, cols_list) ==
  LET N == Len(rows_list)
  IN  to_list([k \in 1..(N * Len(cols_list)) |->
         <<rows_list[((k - 1) % N) + 1], cols_list[((k - 1) \div N) + 1]>>])

\* for key, pos in tmpl["tablemeta"].items(): block.loc[pos[0], pos[1]].
\* pos[1] of a list of one tuple raises IndexError.
extract_tablemeta(values, tablemeta) ==
  IF \E i \in 1..Len(tablemeta) : tablemeta[i].v.py = "list" /\ Len(tablemeta[i].v.v) < 2
  THEN [raised |-> "IndexError", msg |-> "list index out of range"]
  ELSE [raised |-> "none",
        items |-> [i \in 1..Len(tablemeta) |->
                     [k |-> tablemeta[i].k,
                      v |-> values[tablemeta[i].v.v[1]][tablemeta[i].v.v[2]]]]]

\* dict(block.iloc[start:end+1, col].items()): position -> value.
extract_rowmeta(values, rowmeta) ==
  [i \in 1..Len(rowmeta) |->
     [k |-> rowmeta[i].k,
      v |-> [r \in rowmeta[i].v.start..rowmeta[i].v.end |-> values[r][rowmeta[i].v.col]]]]

extract_colmeta(values, colmeta) ==
  [i \in 1..Len(colmeta) |->
     [k |-> colmeta[i].k,
      v |-> [c \in colmeta[i].v.start..colmeta[i].v.end |-> values[colmeta[i].v.row][c]]]]

\* d.get(i, None) for a dict keyed by positions.
get_or_None(d, x) == IF is_int(x) /\ int(x) \in DOMAIN d THEN d[int(x)] ELSE None

\* for k, v in block_tablemeta.items(): result[k] = v
RECURSIVE merge_tablemeta(_, _, _)
merge_tablemeta(frame, items, i) ==
  IF i > Len(items) THEN frame
  ELSE merge_tablemeta(
         dict_set(frame, items[i].k, to_list([n \in 1..Len(frame[1].v) |-> items[i].v])),
         items, i + 1)

\* for k, d in block_rowmeta.items():
\*     result[k] = [d.get(i, None) for i in result[<by>].to_list()]
RECURSIVE merge_by(_, _, _, _)
merge_by(frame, items, by, i) ==
  IF i > Len(items) THEN frame
  ELSE LET column == dict_get(frame, by)
       IN  merge_by(
             dict_set(frame, items[i].k,
                      to_list([n \in 1..Len(column) |-> get_or_None(items[i].v, column[n])])),
             items, by, i + 1)

\* result[name] = [idx_map[i] for i in result[name]]: a value that is no
\* position raises KeyError.
restore(frame, name, labels) ==
  LET column == dict_get(frame, name)
  IN  IF \E n \in 1..Len(column) :
           ~(is_int(column[n]) /\ int(column[n]) \in 0..(Len(labels) - 1))
      THEN [raised |-> "KeyError"]
      ELSE [raised |-> "none",
            frame |-> dict_set(frame, name,
                        to_list([n \in 1..Len(column) |-> Num(labels[int(column[n]) + 1])]))]

parse_block(block, t) ==
  LET values == block.values
      block_tablemeta == extract_tablemeta(values, t.tablemeta)
      block_rowmeta == extract_rowmeta(values, t.rowmeta)
      block_colmeta == extract_colmeta(values, t.colmeta)
      cells == melt(t.data_rows_list, t.data_cols_list)
      melted ==
        <<[k |-> name_row_index, v |-> to_list([n \in 1..Len(cells) |-> Num(cells[n][1])])],
          [k |-> name_col_index, v |-> to_list([n \in 1..Len(cells) |-> Num(cells[n][2])])],
          [k |-> name_value,
           v |-> to_list([n \in 1..Len(cells) |-> values[cells[n][1]][cells[n][2]]])]>>
      merged ==
        merge_by(
          merge_by(merge_tablemeta(melted, block_tablemeta.items, 1),
                   block_rowmeta, name_row_index, 1),
          block_colmeta, name_col_index, 1)
      rows_restored == restore(merged, name_row_index, block.index)
  IN  IF shape(block) # <<t.block_nrow, t.block_ncol>>
      THEN [raised |-> "AssertionError", msg |-> "block.shape"]
      ELSE IF block_tablemeta.raised # "none" THEN block_tablemeta
      ELSE IF rows_restored.raised # "none" THEN rows_restored
      ELSE restore(rows_restored.frame, name_col_index, block.columns)

(***************************************************************************)
(* block.read_block_excel                                                  *)
(***************************************************************************)
\* The bounds of the Python slice [start:stop] of a sequence of n items.
slice_bound(i, n) == IF i < 0 THEN (IF i + n < 0 THEN 0 ELSE i + n) ELSE (IF i > n THEN n ELSE i)

\* pd.DataFrame(full.iloc[row_start:row_end, col_start:col_end].values)
trim(full, skipheader, skipfooter, skipleft, skipright) ==
  LET r0 == slice_bound(skipheader, Len(full.index))
      r1 == slice_bound(Len(full.index) - skipfooter, Len(full.index))
      c0 == slice_bound(skipleft, Len(full.columns))
      c1 == slice_bound(Len(full.columns) - skipright, Len(full.columns))
      nrow == IF r1 > r0 THEN r1 - r0 ELSE 0
      ncol == IF c1 > c0 THEN c1 - c0 ELSE 0
  IN  DataFrame(nrow, ncol,
        [r \in 0..(nrow - 1) |-> [c \in 0..(ncol - 1) |-> full.values[r + r0][c + c0]]])

\* round(full.shape[...] / (block size + interval))
nblock(size, block_size, interval) == round_div(size, block_size + interval)

\* [i * block_size + i * interval for i in range(n)]
block_starts(n, block_size, interval) ==
  IF n <= 0 THEN <<>> ELSE [i \in 1..n |-> (i - 1) * block_size + (i - 1) * interval]

\* full.iloc[range(row_start, row_start + nrow), range(col_start, col_start + ncol)]:
\* the labels are the positions in full.
block_at(full, row_start, col_start, nrow, ncol) ==
  [index |-> range(row_start, row_start + nrow),
   columns |-> range(col_start, col_start + ncol),
   values |-> [r \in 0..(nrow - 1) |-> [c \in 0..(ncol - 1) |->
                 full.values[r + row_start][c + col_start]]]]

\* all(block.isna().all())
all_na(block) ==
  \A r \in 0..(Len(block.index) - 1) : \A c \in 0..(Len(block.columns) - 1) :
    isna(block.values[r][c])

\* The (row_start, col_start) pairs of the two nested loops, in their order.
block_origins(row_starts, col_starts) ==
  LET n == Len(col_starts)
  IN  [k \in 1..(Len(row_starts) * n) |->
         <<row_starts[((k - 1) \div n) + 1], col_starts[((k - 1) % n) + 1]>>]

\* pd.concat(frames, axis=0) of frames with the same columns; no frame at all
\* raises ValueError.
RECURSIVE concat(_, _, _)
concat(frames, i, acc) ==
  IF i > Len(frames) THEN acc
  ELSE concat(frames, i + 1,
         to_list([c \in 1..Len(acc) |-> [k |-> acc[c].k, v |-> acc[c].v \o frames[i][c].v]]))

read_block_excel(sheet, t, skipheader, skipfooter, skipleft, skipright, intervalrows, intervalcols) ==
  LET full == trim(sheet, skipheader, skipfooter, skipleft, skipright)
      nblock_in_row == nblock(shape(full)[2], t.block_ncol, intervalcols)
      expected_cols == nblock_in_row * t.block_ncol + (nblock_in_row - 1) * intervalcols
      nblock_in_col == nblock(shape(full)[1], t.block_nrow, intervalrows)
      expected_rows == nblock_in_col * t.block_nrow + (nblock_in_col - 1) * intervalrows
      origins == block_origins(block_starts(nblock_in_col, t.block_nrow, intervalrows),
                               block_starts(nblock_in_row, t.block_ncol, intervalcols))
      all_blocks == to_list([k \in 1..Len(origins) |->
                       block_at(full, origins[k][1], origins[k][2],
                                t.block_nrow, t.block_ncol)])
      blocks == SelectSeq(all_blocks, LAMBDA b : ~all_na(b))
      parsed == to_list([k \in 1..Len(blocks) |-> parse_block(blocks[k], t)])
      failed == {k \in 1..Len(blocks) : parsed[k].raised # "none"}
  IN  IF shape(full)[2] # expected_cols
      THEN [raised |-> "AssertionError", msg |-> "Columns don't fit block"]
      ELSE IF shape(full)[1] # expected_rows
      THEN [raised |-> "AssertionError", msg |-> "Rows don't fit block"]
      ELSE IF failed # {} THEN parsed[CHOOSE k \in failed : \A j \in failed : k <= j]
      ELSE IF blocks = <<>>
      THEN [raised |-> "ValueError", msg |-> "No objects to concatenate"]
      ELSE [raised |-> "none",
            frame |-> concat(to_list([k \in 1..Len(parsed) |-> parsed[k].frame]), 2,
                            parsed[1].frame)]

(***************************************************************************)
(* Inputs                                                                  *)
(***************************************************************************)
\* The longest list and the largest integer given to check_int_serial.
MaxLen == 4
MaxInt == 4

SerialInputs == UNION {[1..n -> 1..MaxInt] : n \in 1..MaxLen}

\* Cell texts.
key_a == <<"a">>
key_b == <<"b">>
text_plain == Str(<<"x">>)
marker(key, lit) == Str(key \o lit)

\* The template sheets of SpecTemplate: every cell blank or plain text, but for
\* at most MaxMarkers cells drawn from MarkerCells: a table marker, row
\* markers of two keys and a column marker. Three rows and three columns are
\* the fewest in which a data zone or a marker range can have a gap.
TemplateSide == 0..2
MaxMarkers == 2

MarkerCells ==
  {marker(key_a, lit_tablemeta),
   marker(key_a, lit_rowmeta), marker(key_b, lit_rowmeta),
   marker(key_a, lit_colmeta)}

TemplateCells == TemplateSide \X TemplateSide

\* The sets of at most n cells.
CellSets(n) == {S \in SUBSET TemplateCells : Cardinality(S) <= n}

\* The sheet over rows x cols with the cells of `marked` as m gives them, the
\* cells of `blank` empty and the others plain text.
TemplateOf(rows, cols, blank, marked, m) ==
  DataFrame(Cardinality(rows), Cardinality(cols),
    [r \in rows |-> [c \in cols |->
       IF <<r, c>> \in marked THEN m[<<r, c>>]
       ELSE IF <<r, c>> \in blank THEN None ELSE text_plain]])

(***************************************************************************)
(* SpecSerial: check_int_serial on every input                             *)
(***************************************************************************)
InitSerial ==
  /\ pc = "serial"
  /\ ser \in SerialInputs
  /\ sort \in BOOLEAN
  /\ serial = Unset
  /\ tmpl_df = Unset
  /\ tmpl = Unset
  /\ call = Unset
  /\ result = Unset

CheckIntSerial ==
  /\ pc = "serial"
  /\ serial' = check_int_serial(ser, sort)
  /\ pc' = "serial_done"
  /\ UNCHANGED <<ser, sort, tmpl_df, tmpl, call, result>>

SpecSerial == InitSerial /\ [][CheckIntSerial]_vars

(***************************************************************************)
(* SpecTemplate: parse_template on every template sheet                    *)
(***************************************************************************)
InitTemplate ==
  /\ pc = "template"
  /\ \E marked \in CellSets(MaxMarkers) :
       \E m \in [marked -> MarkerCells] :
         \E blank \in SUBSET (TemplateCells \ marked) :
           tmpl_df = TemplateOf(TemplateSide, TemplateSide, blank, marked, m)
  /\ ser = <<>>
  /\ sort = FALSE
  /\ serial = Unset
  /\ tmpl = Unset
  /\ call = Unset
  /\ result = Unset

ParseTemplate ==
  /\ pc = "template"
  /\ tmpl' = parse_template(tmpl_df)
  /\ pc' = "parsed"
  /\ UNCHANGED <<ser, sort, serial, tmpl_df, call, result>>

SpecTemplate == InitTemplate /\ [][ParseTemplate]_vars
(***************************************************************************)
(* Spec: parse_template, then parse_block on one block or read_block_excel *)
(* on a sheet of tiled blocks                                              *)
(***************************************************************************)
\* The template sheets of Spec: three rows and four columns, a data zone of
\* two blank rows and three blank columns under a header row and beside a
\* header column. The corner is text; the cells over the data zone are text, a
\* table marker or a column marker; the cells beside it are text or a row
\* marker. The key a serves the three kinds of marker, and a row marker may
\* also use the key value, the name of a column of parse_block's result.
BlockRows == 0..2
BlockCols == 0..3
HeaderPositions == {<<0, c>> : c \in BlockCols} \cup {<<r, 0>> : r \in BlockRows}

HeaderCells(p) ==
  IF p = <<0, 0>> THEN {text_plain}
  ELSE IF p[1] = 0
  THEN {text_plain, marker(key_a, lit_tablemeta), marker(key_a, lit_colmeta)}
  ELSE {text_plain, marker(key_a, lit_rowmeta), marker(name_value, lit_rowmeta)}

Headers == {m \in [HeaderPositions -> UNION {HeaderCells(p) : p \in HeaderPositions}] :
              \A p \in HeaderPositions : m[p] \in HeaderCells(p)}

\* The blocks: every cell a number of its own, or the same with a blank data
\* cell and a blank header cell.
SheetBlock == [r \in BlockRows |-> [c \in BlockCols |-> Num(10 * (r + 1) + c)]]

BlockValues ==
  {SheetBlock,
   [r \in BlockRows |-> [c \in BlockCols |->
      IF <<r, c>> \in {<<0, 1>>, <<1, 1>>} THEN None ELSE SheetBlock[r][c]]]}

\* Row and column labels of a block handed to parse_block: positions, an
\* offset run, and labels neither sorted nor distinct.
RowLabelLists == {<<0, 1, 2>>, <<4, 5, 6>>, <<7, 7, 3>>}
ColLabelLists == {<<0, 1, 2, 3>>, <<4, 5, 6, 7>>, <<7, 7, 3, 5>>}

\* The sheets: MaxCopies x MaxCopies blocks at most; between them no gap, a
\* gap shorter than a block, as long as a block or longer than its rows; and
\* a margin of text, of one of the widths in Skips, on each edge.
MaxCopies == 2
Gaps == {0, 1, 3, 4}
Skips == {0, 1}

\* The sheet of R x C copies of a block, gap_rows blank rows and gap_cols blank
\* columns between them, the copies in `emptied` blank, inside a margin.
TiledSheet(values, R, C, gap_rows, gap_cols, emptied, margin) ==
  LET bnrow == Cardinality(DOMAIN values)
      bncol == Cardinality(DOMAIN values[0])
      nrow == 2 * margin + R * bnrow + (R - 1) * gap_rows
      ncol == 2 * margin + C * bncol + (C - 1) * gap_cols
      cell(r, c) ==
        IF r < margin \/ r >= nrow - margin \/ c < margin \/ c >= ncol - margin
        THEN text_plain
        ELSE LET i == (r - margin) \div (bnrow + gap_rows)
                 ro == (r - margin) % (bnrow + gap_rows)
                 j == (c - margin) \div (bncol + gap_cols)
                 co == (c - margin) % (bncol + gap_cols)
             IN  IF ro >= bnrow \/ co >= bncol \/ <<i, j>> \in emptied THEN None
                 ELSE values[ro][co]
  IN  DataFrame(nrow, ncol, [r \in 0..(nrow - 1) |-> [c \in 0..(ncol - 1) |-> cell(r, c)]])

Init ==
  /\ pc = "template"
  /\ \E m \in Headers :
       tmpl_df = TemplateOf(BlockRows, BlockCols, (BlockRows \X BlockCols) \ HeaderPositions,
                            HeaderPositions, m)
  /\ ser = <<>>
  /\ sort = FALSE
  /\ serial = Unset
  /\ tmpl = Unset
  /\ call = Unset
  /\ result = Unset

\* parse_block(block, tmpl) on a block of the template's shape, or one row short.
ParseBlock ==
  /\ pc = "parsed"
  /\ tmpl.raised = "none"
  /\ \E values \in BlockValues, index \in RowLabelLists \cup {<<0, 1>>}, columns \in ColLabelLists :
       LET block == [index |-> index, columns |-> columns,
                     values |-> [r \in 0..(Len(index) - 1) |-> values[r]]]
       IN  /\ call' = [fn |-> "parse_block", block |-> block]
           /\ result' = parse_block(block, tmpl)
  /\ pc' = "done"
  /\ UNCHANGED <<ser, sort, serial, tmpl_df, tmpl>>

\* read_block_excel(path, tmpl, skip.., intervalrows, intervalcols) on a sheet of
\* tiled copies of a block, at most one of them blank.
ReadBlockExcel ==
  /\ pc = "parsed"
  /\ tmpl.raised = "none"
  /\ \E values \in {SheetBlock}, R \in 1..MaxCopies, C \in 1..MaxCopies,
        gap_rows \in Gaps, gap_cols \in Gaps, margin \in Skips :
       \E emptied \in {{}} \cup {{<<i, j>>} : i \in 0..(R - 1), j \in 0..(C - 1)} :
         LET sheet == TiledSheet(values, R, C, gap_rows, gap_cols, emptied, margin)
         IN  /\ call' = [fn |-> "read_block_excel", values |-> values,
                         R |-> R, C |-> C, emptied |-> emptied, skip |-> margin,
                         intervalrows |-> gap_rows, intervalcols |-> gap_cols]
             /\ result' = read_block_excel(sheet, tmpl, margin, margin, margin, margin,
                                           gap_rows, gap_cols)
  /\ pc' = "done"
  /\ UNCHANGED <<ser, sort, serial, tmpl_df, tmpl>>

Next == ParseTemplate \/ ParseBlock \/ ReadBlockExcel

Spec == Init /\ [][Next]_vars
(***************************************************************************)
(* Properties                                                              *)
(***************************************************************************)
\* The column of a result frame, and the number of its rows.
column(frame, name) == dict_get(frame, name)
nrows(frame) == Len(frame[1].v)

\* A set of integers that is a non-empty run without a gap.
IsRun(S) == S # {} /\ \A x \in S : \A y \in S : \A z \in x..y : z \in S

\* A list that is a non-empty ascending run without a gap.
IsAscendingRun(l) == Len(l) >= 1 /\ \A i \in 1..(Len(l) - 1) : l[i + 1] = l[i] + 1

Positions(df) == set(df.index) \X set(df.columns)

\* The cells of a sheet holding a marker of one kind, and the key of such a cell.
MarkerCellsOf(df, lit) == {p \in Positions(df) : is_marker(df.values[p[1]][p[2]], lit)}
KeyAt(df, p, lit) == re_match(df.values[p[1]][p[2]].v, lit).group1

\* The first of a set of positions in row-major order.
FirstInRowMajor(S) ==
  CHOOSE p \in S : \A q \in S : p[1] < q[1] \/ (p[1] = q[1] /\ p[2] <= q[2])

MetaCols(df) == {c \in set(df.columns) : ~any_na_col(df, c)}
MetaRows(df) == {r \in set(df.index) : ~any_na_row(df, r)}
DataCols(df) == set(df.columns) \ MetaCols(df)
DataRows(df) == set(df.index) \ MetaRows(df)

Returned(t) == t.raised = "none"

----
\* C6: check_int_serial(values, sort=False) is true exactly when the input, in
\* the order given, is the ascending run min, min+1, ..., max; with sort=True
\* exactly when the sorted input is that run, that is when the values are
\* distinct and leave no gap. An input with a duplicate or a gap is false in
\* both modes.
C6_IsContiguous ==
  pc = "serial_done" =>
    LET n == Len(ser)
        lo == min(ser)
        hi == max(ser)
        in_order == n = hi - lo + 1 /\ \A i \in 1..n : ser[i] = lo + i - 1
        complete == Cardinality(set(ser)) = n /\ \A x \in lo..hi : x \in set(ser)
    IN  /\ serial.raised = "none"
        /\ ~sort => (serial.value <=> in_order)
        /\ sort => (serial.value <=> complete)
        /\ ~complete => ~serial.value

\* A permutation of a complete run is accepted with sort and refused without.
C6_Witness ==
  /\ pc = "serial_done"
  /\ ser = <<1, 3, 2, 4>>
  /\ sort
  /\ serial.value

----
\* C7: every descriptor parse_template returns has data_rows_list and
\* data_cols_list non-empty ascending runs without a gap, data_nrow and
\* data_ncol their lengths, every rowmeta entry in a column outside
\* data_cols_list with start..end inside data_rows_list, and every colmeta
\* entry in a row outside data_rows_list with start..end inside
\* data_cols_list; and a template sheet whose data zone or marker ranges break
\* one of these is rejected with an error.
C7_DescriptorValid ==
  (pc = "parsed" /\ Returned(tmpl)) =>
    /\ IsAscendingRun(tmpl.data_rows_list)
    /\ IsAscendingRun(tmpl.data_cols_list)
    /\ tmpl.data_nrow = Len(tmpl.data_rows_list)
    /\ tmpl.data_ncol = Len(tmpl.data_cols_list)
    /\ \A i \in 1..Len(tmpl.rowmeta) :
         LET e == tmpl.rowmeta[i].v
         IN  /\ e.col \notin set(tmpl.data_cols_list)
             /\ e.start <= e.end
             /\ \A r \in e.start..e.end : r \in set(tmpl.data_rows_list)
    /\ \A i \in 1..Len(tmpl.colmeta) :
         LET e == tmpl.colmeta[i].v
         IN  /\ e.row \notin set(tmpl.data_rows_list)
             /\ e.start <= e.end
             /\ \A c \in e.start..e.end : c \in set(tmpl.data_cols_list)

\* The rows of the rowmeta markers of a column, and the columns of the colmeta
\* markers of a row.
RowmetaRows(df, c) == {p[1] : p \in {q \in MarkerCellsOf(df, lit_rowmeta) : q[2] = c}}
ColmetaCols(df, r) == {p[2] : p \in {q \in MarkerCellsOf(df, lit_colmeta) : q[1] = r}}

\* A template sheet that breaks the descriptor's invariants.
Malformed(df) ==
  \/ ~IsRun(DataRows(df))
  \/ ~IsRun(DataCols(df))
  \/ \E c \in MetaCols(df) :
       RowmetaRows(df, c) # {} /\
         (~IsRun(RowmetaRows(df, c)) \/ ~(RowmetaRows(df, c) \subseteq DataRows(df)))
  \/ \E r \in MetaRows(df) :
       ColmetaCols(df, r) # {} /\
         (~IsRun(ColmetaCols(df, r)) \/ ~(ColmetaCols(df, r) \subseteq DataCols(df)))

C7_DescriptorInvariants ==
  /\ C7_DescriptorValid
  /\ (pc = "parsed" /\ Malformed(tmpl_df)) => ~Returned(tmpl)

\* A descriptor with a rowmeta and a colmeta entry is returned.
C7_Witness ==
  /\ pc = "parsed"
  /\ Returned(tmpl)
  /\ Len(tmpl.rowmeta) >= 1
  /\ Len(tmpl.colmeta) >= 1

----
\* C1: for every key K with at least one cell matching K[tablemeta],
\* tablemeta[K] of the returned descriptor is the single (row, col) position
\* of the first such cell in row-major order, whether K marks one cell or
\* several.
C1_TablemetaFirstPosition ==
  (pc = "parsed" /\ Returned(tmpl)) =>
    \A p \in MarkerCellsOf(tmpl_df, lit_tablemeta) :
      LET K == KeyAt(tmpl_df, p, lit_tablemeta)
          marked == {q \in MarkerCellsOf(tmpl_df, lit_tablemeta) :
                       KeyAt(tmpl_df, q, lit_tablemeta) = K}
      IN  /\ has_key(tmpl.tablemeta, K)
          /\ dict_get(tmpl.tablemeta, K) = tuple(FirstInRowMajor(marked))

----
\* C4: a template sheet in which the same rowmeta key is marked in two or more
\* metadata columns, or the same colmeta key in two or more metadata rows, is
\* rejected: parse_template raises and returns no descriptor.
SameRowmetaKeyInTwoColumns(df) ==
  \E p \in MarkerCellsOf(df, lit_rowmeta) : \E q \in MarkerCellsOf(df, lit_rowmeta) :
    /\ p[2] # q[2]
    /\ {p[2], q[2]} \subseteq MetaCols(df)
    /\ KeyAt(df, p, lit_rowmeta) = KeyAt(df, q, lit_rowmeta)

SameColmetaKeyInTwoRows(df) ==
  \E p \in MarkerCellsOf(df, lit_colmeta) : \E q \in MarkerCellsOf(df, lit_colmeta) :
    /\ p[1] # q[1]
    /\ {p[1], q[1]} \subseteq MetaRows(df)
    /\ KeyAt(df, p, lit_colmeta) = KeyAt(df, q, lit_colmeta)

C4_KeyInTwoColumnsRejected ==
  (pc = "parsed" /\ (SameRowmetaKeyInTwoColumns(tmpl_df) \/ SameColmetaKeyInTwoRows(tmpl_df)))
    => ~Returned(tmpl)

----
\* What the properties of parse_block and read_block_excel speak of.
ParsedBlock == pc = "done" /\ call.fn = "parse_block"
ReadBlocks == pc = "done" /\ call.fn = "read_block_excel"

\* The names of the three columns parse_block's result always has.
FixedNames == {name_row_index, name_col_index, name_value}

\* No metadata key of the descriptor is the name of a fixed column.
NoFixedNameKey(t) ==
  \A k \in set(keys(t.tablemeta)) \cup set(keys(t.rowmeta)) \cup set(keys(t.colmeta)) :
    k \notin FixedNames

\* parse_block can read every table position of the descriptor.
TablePositionsAreTuples(t) == \A i \in 1..Len(t.tablemeta) : t.tablemeta[i].v.py = "tuple"

\* The copies of the block in a sheet that are not blank, in row-major order.
KeptCopies ==
  SelectSeq([k \in 1..(call.R * call.C) |-> <<(k - 1) \div call.C, (k - 1) % call.C>>],
            LAMBDA p : p \notin call.emptied)

\* The label, in the trimmed sheet, of row r of the copy in block row i, and
\* of column c of the copy in block column j.
SheetRow(i, r) == i * (tmpl.block_nrow + call.intervalrows) + r
SheetCol(j, c) == j * (tmpl.block_ncol + call.intervalcols) + c

\* Row n of a frame is the data cell (r, c) of a block with these labels and
\* values (a rowmeta key named value takes the value column over).
IsCell(frame, n, row_label, col_label, value) ==
  /\ column(frame, name_row_index)[n] = Num(row_label)
  /\ column(frame, name_col_index)[n] = Num(col_label)
  /\ ~has_key(tmpl.rowmeta, name_value) => column(frame, name_value)[n] = value

\* The position in the block of the k-th cell (k from 0) of the data zone, row
\* by row and column by column.
RowMajorCell(k) ==
  <<tmpl.data_rows_list[(k \div tmpl.data_ncol) + 1],
    tmpl.data_cols_list[(k % tmpl.data_ncol) + 1]>>

ColumnMajorCell(k) ==
  <<tmpl.data_rows_list[(k % tmpl.data_nrow) + 1],
    tmpl.data_cols_list[(k \div tmpl.data_nrow) + 1]>>

CellOf(major, k) == IF major = "row" THEN RowMajorCell(k) ELSE ColumnMajorCell(k)

\* The rows of a result follow the given order of the data zone's cells within
\* a block (CellOf(major, k), k from 0, is the position of a block's k-th row),
\* the blocks one after the other in row-major order of their place in the
\* sheet.
InOrder(major) ==
  LET per_block == tmpl.data_nrow * tmpl.data_ncol
      frame == result.frame
  IN  IF call.fn = "parse_block"
      THEN /\ nrows(frame) = per_block
           /\ \A n \in 1..per_block :
                LET p == CellOf(major, n - 1)
                IN  IsCell(frame, n, call.block.index[p[1] + 1],
                           call.block.columns[p[2] + 1], call.block.values[p[1]][p[2]])
      ELSE /\ nrows(frame) = Len(KeptCopies) * per_block
           /\ \A n \in 1..nrows(frame) :
                LET copy == KeptCopies[((n - 1) \div per_block) + 1]
                    p == CellOf(major, (n - 1) % per_block)
                IN  IsCell(frame, n, SheetRow(copy[1], p[1]), SheetCol(copy[2], p[2]),
                           call.values[p[1]][p[2]])

\* C5, as claimed: within a block parse_block emits the data zone row by row,
\* the k-th row of its result being the cell (data_rows[k div data_ncol],
\* data_cols[k mod data_ncol]); read_block_excel emits the kept blocks in
\* row-major order of their place in the sheet, each block's rows together.
C5_RowMajorWithinBlock ==
  (pc = "done" /\ Returned(result)) => InOrder("row")

\* C5, amended: within a block parse_block emits the data zone column by
\* column, the k-th row of its result being the cell (data_rows[k mod
\* data_nrow], data_cols[k div data_nrow]); read_block_excel emits the kept
\* blocks in row-major order of their place in the sheet, each block's rows
\* together.
C5_ColumnMajorWithinBlock ==
  (pc = "done" /\ Returned(result)) => InOrder("column")

\* Four blocks of six data cells each are read from a sheet with gaps.
C5_Witness ==
  /\ ReadBlocks
  /\ Returned(result)
  /\ call.R = 2
  /\ call.C = 2
  /\ call.emptied = {}
  /\ call.intervalrows = 1
  /\ call.intervalcols = 3
  /\ nrows(result.frame) = 24

----
\* C2: a sheet of R x C copies of a non-empty block, separated by row_gap
\* blank rows and col_gap blank columns, passes the fit check for every
\* row_gap >= 0 and col_gap >= 0, and read_block_excel returns
\* R * C * data_nrow * data_ncol rows. (Stated for the descriptors whose table
\* positions parse_block can read.)
C2_TiledSheetFits ==
  (ReadBlocks /\ call.emptied = {} /\ TablePositionsAreTuples(tmpl)) =>
    /\ Returned(result)
    /\ nrows(result.frame) = call.R * call.C * tmpl.data_nrow * tmpl.data_ncol

----
\* Gaps for which the fit check accepts a tiled sheet: shorter than the block.
GapsFit == call.intervalrows < tmpl.block_nrow /\ call.intervalcols < tmpl.block_ncol

\* C3: with exactly one of the N copies blank, read_block_excel drops it and
\* returns (N - 1) * data_nrow * data_ncol rows without raising; for N = 1 the
\* result has no row. (Stated for the descriptors whose table positions
\* parse_block can read, and the gaps the fit check accepts.)
C3_BlankCopyDropped ==
  (ReadBlocks /\ Cardinality(call.emptied) = 1 /\ TablePositionsAreTuples(tmpl) /\ GapsFit) =>
    /\ Returned(result)
    /\ nrows(result.frame) = (call.R * call.C - 1) * tmpl.data_nrow * tmpl.data_ncol

----
\* C8: for every descriptor parse_template returns and every block of its
\* shape, whatever its labels, parse_block returns one row for each cell
\* (r, c) of the data zone and no other, with row_index the label of r,
\* col_index the label of c and value the block's cell. (Stated for the
\* descriptors with no key named as a fixed column.)
C8_RoundTrip ==
  (ParsedBlock /\ shape(call.block) = <<tmpl.block_nrow, tmpl.block_ncol>>
     /\ NoFixedNameKey(tmpl)) =>
    /\ Returned(result)
    /\ nrows(result.frame) = tmpl.data_nrow * tmpl.data_ncol
    /\ \A r \in set(tmpl.data_rows_list) : \A c \in set(tmpl.data_cols_list) :
         \E n \in 1..nrows(result.frame) :
           IsCell(result.frame, n, call.block.index[r + 1], call.block.columns[c + 1],
                  call.block.values[r][c])

----
\* C9: the columns of parse_block's result are row_index, col_index, value,
\* then one per tablemeta key, one per rowmeta key and one per colmeta key, in
\* the descriptor's order: 3 + |tablemeta| + |rowmeta| + |colmeta| columns,
\* also when a key is used by more than one kind of metadata. (Stated for the
\* descriptors with no key named as a fixed column.)
C9_ColumnSet ==
  (ParsedBlock /\ Returned(result) /\ NoFixedNameKey(tmpl)) =>
    keys(result.frame) =
      <<name_row_index, name_col_index, name_value>> \o keys(tmpl.tablemeta)
        \o keys(tmpl.rowmeta) \o keys(tmpl.colmeta)

----
\* C10: in every row of parse_block's result, from the data cell (r, c), each
\* tablemeta key holds the block's cell at its position, each rowmeta key k
\* the block's cell (r, rowmeta[k].col) when start <= r <= end and None
\* otherwise, each colmeta key k the block's cell (colmeta[k].row, c) when
\* start <= c <= end and None otherwise, whatever the block's labels. (Stated
\* for the descriptors with no key named as a fixed column.)
C10_MetadataJoin ==
  (ParsedBlock /\ Returned(result) /\ NoFixedNameKey(tmpl)) =>
    \A n \in 1..nrows(result.frame) :
      LET p == ColumnMajorCell(n - 1)
          values == call.block.values
      IN  /\ \A i \in 1..Len(tmpl.tablemeta) :
               LET e == tmpl.tablemeta[i]
               IN  column(result.frame, e.k)[n] = values[e.v.v[1]][e.v.v[2]]
          /\ \A i \in 1..Len(tmpl.rowmeta) :
               LET e == tmpl.rowmeta[i]
               IN  column(result.frame, e.k)[n] =
                     IF e.v.start <= p[1] /\ p[1] <= e.v.end
                     THEN values[p[1]][e.v.col] ELSE None
          /\ \A i \in 1..Len(tmpl.colmeta) :
               LET e == tmpl.colmeta[i]
               IN  column(result.frame, e.k)[n] =
                     IF e.v.start <= p[2] /\ p[2] <= e.v.end
                     THEN values[e.v.row][p[2]] ELSE None
====
